---------------------------- MODULE Spec2Model ----------------------------
(***************************************************************************)
(* Authentication and session validation of the product CRUD service      *)
(* (auth.py, main.py, db.py): password check, JWT issue / validate, the    *)
(* FastAPI dependency chain that guards /me and /productos, /register and  *)
(* /login.                                                                 *)
(*                                                                         *)
(* Time is counted in ticks, TicksPerSec ticks to the second, so that the  *)
(* truncation of datetimes to whole seconds done by the JWT library        *)
(* (timegm(utctimetuple())) is visible.  A signature is modelled by the    *)
(* key and algorithm that produced it (HMAC is taken to be unforgeable     *)
(* and collision free).  A bcrypt hash is modelled by the password and     *)
(* the salt it was computed from.                                          *)
(***************************************************************************)
EXTENDS Integers, FiniteSets, Sequences, TLC

VARIABLES
    users,      \* committed rows of table usuarios
    nextId,     \* next value of the serial usuarios.id
    productos,  \* committed rows of table productos
    nextPid,    \* next value of the serial productos.id
    clock,      \* datetime.utcnow(), in ticks
    secretKey,  \* auth.SECRET_KEY of the running process
    borrowed,   \* connections taken from the pool and not yet returned
    session,    \* the token the client holds: the last one /login returned
    req,        \* the requests in flight, one per worker slot
    cdc         \* a direct caller of the token codec (pure-function checks)

vars == <<users, nextId, productos, nextPid, clock, secretKey,
          borrowed, session, req, cdc>>

-----------------------------------------------------------------------------
(* Bounds and program constants *)

TicksPerSec == 2
SecPerMin == 60
ACCESS_TOKEN_EXPIRE_MINUTES == 30
NReq == 2
MaxTick == 0
MaxId == 2
CodecMaxClock == 5

ALGORITHM == "HS256"
DefaultKey == "k1"
Keys == {"k1", "k2"}
Algs == {"HS256", "HS384", ""}

Usernames == {"alice", "bob"}
Salts == {"s1"}

NoSub == "<none>"
NoRole == "<none>"
NoExp == -1
NoDelta == -1

minutes(m) == m * SecPerMin * TicksPerSec

\* timegm(dt.utctimetuple()): a datetime truncated to whole seconds
timegm(t) == t \div TicksPerSec

-----------------------------------------------------------------------------
(* Token codec: auth.create_access_token, auth.verify_token *)

StaleExp == 1
ClaimSets == [sub : {"alice", NoSub}, exp : {NoExp, StaleExp}, role : {NoRole, "admin"}]
Deltas == {NoDelta, 0, 1, 3}

\* data.copy(): the copy has the entries of data and is another object
dict_copy(data) == data

\* jwt.encode(claims, key, algorithm): exp (a datetime) becomes whole seconds
jwt_encode(claims, key, alg) ==
    [sub |-> claims.sub, role |-> claims.role, exp |-> timegm(claims.exp),
     key |-> key, alg |-> alg]

\* The result is the token and the caller's dict as the call leaves it.
create_access_token_nocopy(data, expires_delta, now, key) ==
    LET expire == now + (IF expires_delta # NoDelta /\ expires_delta # 0
                         THEN expires_delta
                         ELSE minutes(ACCESS_TOKEN_EXPIRE_MINUTES))
        to_encode == [data EXCEPT !.exp = expire]
    IN  [token |-> jwt_encode(to_encode, key, ALGORITHM),
         data |-> [data EXCEPT !.exp = timegm(expire)]]

create_access_token(data, expires_delta, now, key) ==
    LET to_encode == dict_copy(data)
        expire == now + (IF expires_delta # NoDelta /\ expires_delta # 0
                         THEN expires_delta
                         ELSE minutes(ACCESS_TOKEN_EXPIRE_MINUTES))
        updated == [to_encode EXCEPT !.exp = expire]
    IN  [token |-> jwt_encode(updated, key, ALGORITHM), data |-> data]

\* jose.jwt.decode(token, key, algorithms): "" when it returns the payload,
\* else the class of the exception it raises.  The signature and the
\* algorithm are checked first, then the exp claim: exp < now raises.
jwt_decode_nosig(token, key, algorithms, now) ==
    IF token.exp # NoExp /\ token.exp < timegm(now) THEN "ExpiredSignatureError"
    ELSE ""

jwt_decode(token, key, algorithms, now) ==
    IF token.alg \notin algorithms THEN "JWTError"
    ELSE IF token.key # key THEN "JWTError"
    ELSE IF token.exp # NoExp /\ token.exp < timegm(now) THEN "ExpiredSignatureError"
    ELSE ""

Payload(token) == [sub |-> token.sub, exp |-> token.exp, role |-> token.role]

\* A response: the status, the detail of an error, whether it carries the
\* WWW-Authenticate header, the exceptions whose text (str(e)) the detail
\* quotes, and the body (a token, a user's public fields, product rows).
HTTPException(status, detail, www) ==
    [status |-> status, detail |-> detail, www |-> www, text |-> {},
     token |-> {}, user |-> {}, rows |-> {}]

\* except JWTError catches ExpiredSignatureError too, a subclass of it
verify_token(token, now, key) ==
    LET e == jwt_decode(token, key, {ALGORITHM}, now)
    IN  IF e = ""
        THEN [ok |-> TRUE, payload |-> {Payload(token)}, exc |-> {}]
        ELSE [ok |-> FALSE, payload |-> {},
              exc |-> {HTTPException(401, "Token invalido o expirado", TRUE)}]

-----------------------------------------------------------------------------
(* Credential store and authenticator: auth.py *)

\* pwd_context.hash: bcrypt of the password under a fresh salt
get_password_hash(password, salt) == [pw |-> password, salt |-> salt]

\* A stored string that is no hash of any scheme (a legacy plaintext, an
\* empty string)
MalformedHash == [pw |-> "", salt |-> ""]

\* CryptContext identifies the scheme of the hash before it verifies
identify(hashed_password) == hashed_password.salt \in Salts

\* pwd_context.verify on a bcrypt hash
verify_password(plain_password, hashed_password) ==
    hashed_password.pw = plain_password

\* The exception verify_password raises ("": none): pwd_context.verify
\* raises UnknownHashError for a hash it cannot identify
verify_password_exc(plain_password, hashed_password) ==
    IF identify(hashed_password) THEN "" ELSE "UnknownHashError"

\* cur.fetchone(): one of the rows, none when there is none
fetchone(rows) == IF rows = {} THEN {} ELSE {CHOOSE x \in rows : TRUE}

\* SELECT ... FROM usuarios WHERE username = %s; the row or none
get_user_by_username_any(U, username) == fetchone(U)

get_user_by_username(U, username) ==
    fetchone({u \in U : u.username = username})

\* The user returned (none: {}) and the exception raised ("": none).
authenticate_user_noactive(U, username, password) ==
    LET user == get_user_by_username(U, username)
    IN  IF user = {} THEN [user |-> {}, exc |-> ""]
        ELSE IF \E u \in user : ~verify_password(password, u.hashed_password)
             THEN [user |-> {}, exc |-> ""]
        ELSE [user |-> user, exc |-> ""]

authenticate_user_raise(U, username, password) ==
    LET user == get_user_by_username(U, username)
    IN  IF user = {} THEN [user |-> {}, exc |-> "HTTP404"]
        ELSE IF \E u \in user : ~verify_password(password, u.hashed_password)
             THEN [user |-> {}, exc |-> ""]
        ELSE IF \E u \in user : ~u.is_active THEN [user |-> {}, exc |-> ""]
        ELSE [user |-> user, exc |-> ""]

\* verify_password catches nothing, and neither does authenticate_user
authenticate_user(U, username, password) ==
    LET user == get_user_by_username(U, username)
    IN  IF user = {} THEN [user |-> {}, exc |-> ""]
        ELSE IF \E u \in user : verify_password_exc(password, u.hashed_password) # ""
             THEN [user |-> {},
                   exc |-> verify_password_exc(password,
                               (CHOOSE u \in user : TRUE).hashed_password)]
        ELSE IF \E u \in user : ~verify_password(password, u.hashed_password)
             THEN [user |-> {}, exc |-> ""]
        ELSE IF \E u \in user : ~u.is_active THEN [user |-> {}, exc |-> ""]
        ELSE [user |-> user, exc |-> ""]

UsuarioResponse(u) ==
    [id |-> u.id, username |-> u.username, email |-> u.email,
     is_active |-> u.is_active]

\* main.login after authenticate_user: an exception of authenticate_user
\* leaves login as it is (an HTTPException is its own response, any other
\* is the framework's 500); 401 without a user; else the token
login_response(auth, now, key) ==
    IF auth.exc = "HTTP404"
    THEN HTTPException(404, "Usuario no encontrado", FALSE)
    ELSE IF auth.exc # ""
    THEN HTTPException(500, "Internal Server Error", FALSE)
    ELSE IF auth.user = {}
    THEN HTTPException(401, "Usuario o contrasena incorrectos", FALSE)
    ELSE LET u == CHOOSE x \in auth.user : TRUE
             t == create_access_token(
                      [sub |-> u.username, exp |-> NoExp, role |-> NoRole],
                      minutes(ACCESS_TOKEN_EXPIRE_MINUTES), now, key).token
         IN  [HTTPException(200, "", FALSE) EXCEPT !.token = {t}]

-----------------------------------------------------------------------------
(* Requests *)

Reqs == 1..NReq

\* The registrations asked for: two accounts, and one that asks for the
\* email of the first under another username
RegInputs == {<<"alice", "a@x.io", "secret1">>, <<"bob", "b@x.io", "secret1">>,
              <<"bob", "a@x.io", "secret1">>}
MaxPid == 1

\* The credentials tried at /login: a password that is the registered one,
\* one that is not, and a user who may not be registered
LoginInputs == {<<"alice", "secret1">>, <<"alice", "secret2">>, <<"bob", "secret1">>}

\* The clock readings visited: the first ticks, and the ticks of the second
\* in which a token issued at the start expires and of the next second.
SysInstants ==
    (0..MaxTick) \cup
    { minutes(ACCESS_TOKEN_EXPIRE_MINUTES) + k : k \in 0..TicksPerSec }

\* A bearer credential that is no JWT at all
Garbage == [sub |-> NoSub, exp |-> NoExp, role |-> NoRole, key |-> "", alg |-> ""]

\* Tokens a client can present besides the one /login returned to it:
\* claims of its own under the server's key (the fallback SECRET_KEY is a
\* literal of the source), a token under another key, one under another
\* algorithm, and a string that is no token.
Crafted ==
    {[sub |-> NoSub, exp |-> NoExp, role |-> NoRole, key |-> DefaultKey, alg |-> ALGORITHM],
     [sub |-> "bob", exp |-> NoExp, role |-> NoRole, key |-> DefaultKey, alg |-> ALGORITHM],
     [sub |-> "alice", exp |-> NoExp, role |-> NoRole, key |-> "k2", alg |-> ALGORITHM],
     [sub |-> "alice", exp |-> NoExp, role |-> NoRole, key |-> DefaultKey, alg |-> "HS384"],
     Garbage}

NoReq ==
    [kind |-> "idle", pc |-> "done", username |-> "", password |-> "",
     email |-> "", scheme |-> "none", tok |-> {}, op |-> "", pid |-> 0,
     nombre |-> "", sub |-> NoSub, row |-> {}, ident |-> {},
     conn |-> FALSE, hconn |-> FALSE, hwrote |-> FALSE,
     fault |-> "", resp |-> HTTPException(0, "", FALSE)]

\* (fault: the database exception the request met, "" when none)

\* A request is taken by the first worker that has none (the workers are
\* alike; a worker keeps the response of its last request until then)
Free(r) == req[r].pc = "done" /\ \A q \in Reqs : q < r => req[q].pc # "done"

\* db.get_connection / db.return_connection: the pool's count of connections out
get_connection == borrowed + 1
return_connection_leak == borrowed
return_connection == borrowed - 1

-----------------------------------------------------------------------------
(* POST /register: main.register *)

\* The UNIQUE constraints of usuarios.username and usuarios.email
unique_violation(U, username, email) ==
    \E u \in U : u.username = username \/ u.email = email

\* main.handle_db_exception: the response for a database exception.
\* has_unique: whether the text of the IntegrityError holds "unique" or
\* "duplicate" (it does in the server's English messages).
handle_db_exception_500(e, has_unique) ==
    HTTPException(500, "Error interno", FALSE)

handle_db_exception(e, has_unique) ==
    IF e = "IntegrityError"
    THEN IF has_unique
         THEN HTTPException(409, "Ya existe un producto con ese nombre", FALSE)
         ELSE [HTTPException(400, "Error de integridad", FALSE) EXCEPT !.text = {e}]
    ELSE IF e = "OperationalError"
    THEN HTTPException(503, "Error de conexion con la base de datos", FALSE)
    ELSE [HTTPException(500, "Error interno", FALSE) EXCEPT !.text = {e}]

\* The request arrives and takes its connection.
Register(r, username, email, password) ==
    /\ Free(r)
    /\ nextId <= MaxId
    /\ req' = [req EXCEPT ![r] =
                 [NoReq EXCEPT !.kind = "register", !.pc = "check",
                               !.username = username, !.email = email,
                               !.password = password, !.conn = TRUE]]
    /\ borrowed' = get_connection
    /\ UNCHANGED <<users, nextId, productos, nextPid, clock, secretKey, session, cdc>>

\* SELECT id FROM usuarios WHERE username = %s OR email = %s; a row: 400,
\* rollback, and the connection goes back (finally).
RegCheck(r) ==
    /\ req[r].kind = "register" /\ req[r].pc = "check"
    /\ IF fetchone({u \in users : u.username = req[r].username
                                   \/ u.email = req[r].email}) # {}
       THEN /\ req' = [req EXCEPT ![r].pc = "done", ![r].conn = FALSE,
                         ![r].resp = HTTPException(400,
                              "El usuario o email ya esta registrado", FALSE)]
            /\ borrowed' = return_connection
       ELSE /\ req' = [req EXCEPT ![r].pc = "insert"]
            /\ UNCHANGED borrowed
    /\ UNCHANGED <<users, nextId, productos, nextPid, clock, secretKey, session, cdc>>

\* The hash, INSERT ... RETURNING id, commit, the response; an
\* IntegrityError of the INSERT: rollback, handle_db_exception.  The
\* connection goes back either way.
RegInsert(r, salt, has_unique) ==
    /\ req[r].kind = "register" /\ req[r].pc = "insert"
    /\ nextId' = nextId + 1
    /\ borrowed' = return_connection
    /\ IF unique_violation(users, req[r].username, req[r].email)
       THEN /\ req' = [req EXCEPT ![r].pc = "done", ![r].conn = FALSE,
                         ![r].fault = "IntegrityError",
                         ![r].resp = handle_db_exception("IntegrityError", has_unique)]
            /\ UNCHANGED users
       ELSE LET row == [id |-> nextId, username |-> req[r].username,
                        email |-> req[r].email,
                        hashed_password |-> get_password_hash(req[r].password, salt),
                        is_active |-> TRUE]
            IN  /\ users' = users \cup {row}
                /\ req' = [req EXCEPT ![r].pc = "done", ![r].conn = FALSE,
                             ![r].row = {row},
                             ![r].resp = [HTTPException(201, "", FALSE)
                                            EXCEPT !.user = {UsuarioResponse(row)}]]
    /\ UNCHANGED <<productos, nextPid, clock, secretKey, session, cdc>>

-----------------------------------------------------------------------------
(* POST /login: main.login *)

\* The request arrives; get_user_by_username takes its connection.
Login(r, username, password) ==
    /\ Free(r)
    /\ req' = [req EXCEPT ![r] =
                 [NoReq EXCEPT !.kind = "login", !.pc = "select",
                               !.username = username, !.password = password,
                               !.conn = TRUE]]
    /\ borrowed' = get_connection
    /\ UNCHANGED <<users, nextId, productos, nextPid, clock, secretKey, session, cdc>>

\* The SELECT of get_user_by_username, its connection back, the checks of
\* authenticate_user, and the response of login.
LoginSelect(r) ==
    /\ req[r].kind = "login" /\ req[r].pc = "select"
    /\ LET auth == authenticate_user(users, req[r].username, req[r].password)
           resp == login_response(auth, clock, secretKey)
       IN  /\ req' = [req EXCEPT ![r].pc = "done", ![r].conn = FALSE,
                        ![r].ident = auth.user, ![r].resp = resp]
           /\ session' = IF resp.token # {} THEN resp.token ELSE session
    /\ borrowed' = return_connection
    /\ UNCHANGED <<users, nextId, productos, nextPid, clock, secretKey, cdc>>

-----------------------------------------------------------------------------
(* The dependency chain of a protected operation: auth.oauth2_scheme,    *)
(* auth.get_current_user, auth.get_current_active_user                   *)

\* HTTPBearer(): the credentials of "Authorization: Bearer <token>", or 403
oauth2_scheme(scheme) ==
    IF scheme = "none" THEN {HTTPException(403, "Not authenticated", FALSE)}
    ELSE IF scheme # "bearer"
    THEN {HTTPException(403, "Invalid authentication credentials", FALSE)}
    ELSE {}

\* get_current_user up to its query: the exception raised ({}: none) and
\* the subject to look up
get_current_user_token_nosub(token, now, key) ==
    LET v == verify_token(token, now, key)
    IN  IF ~v.ok THEN [exc |-> v.exc, sub |-> NoSub]
        ELSE [exc |-> {}, sub |-> (CHOOSE c \in v.payload : TRUE).sub]

get_current_user_token(token, now, key) ==
    LET v == verify_token(token, now, key)
    IN  IF ~v.ok THEN [exc |-> v.exc, sub |-> NoSub]
        ELSE LET username == (CHOOSE c \in v.payload : TRUE).sub
             IN  IF username = NoSub
                 THEN [exc |-> {HTTPException(401, "Token invalido: no contiene 'sub'", FALSE)},
                       sub |-> NoSub]
                 ELSE [exc |-> {}, sub |-> username]

\* get_current_user after its query: 401 when there is no such user
get_current_user_row(user) ==
    IF user = {} THEN {HTTPException(401, "Usuario no encontrado", FALSE)} ELSE {}

\* get_current_active_user: 400 for a user who is not active
get_current_active_user_pass(user) == {}

get_current_active_user(user) ==
    IF \E u \in user : ~u.is_active
    THEN {HTTPException(400, "Usuario inactivo", FALSE)}
    ELSE {}

Headers ==
    {<<"none", {}>>, <<"basic", {}>>} \cup { <<"bearer", {t}>> : t \in Crafted \cup session }

\* The operations requested: each endpoint, on the first product
OpArgs ==
    {<<"me", 0, "">>, <<"listar", 0, "">>, <<"crear", 0, "n1">>,
     <<"obtener", 1, "">>, <<"actualizar", 1, "n2">>, <<"eliminar", 1, "">>}

\* The request arrives: the bearer credentials, verify_token, the subject,
\* and the connection of get_user_by_username.
Protected(r, oa, h) ==
    /\ Free(r)
    /\ oa[1] = "crear" => nextPid <= MaxPid
    /\ LET new == [NoReq EXCEPT !.kind = "prot", !.op = oa[1], !.pid = oa[2],
                                !.nombre = oa[3], !.scheme = h[1], !.tok = h[2]]
           e1 == oauth2_scheme(h[1])
       IN  IF e1 # {}
           THEN /\ req' = [req EXCEPT ![r] =
                             [new EXCEPT !.resp = CHOOSE x \in e1 : TRUE]]
                /\ UNCHANGED borrowed
           ELSE LET g == get_current_user_token(CHOOSE t \in h[2] : TRUE,
                                                clock, secretKey)
                IN  IF g.exc # {}
                    THEN /\ req' = [req EXCEPT ![r] =
                                      [new EXCEPT !.resp = CHOOSE x \in g.exc : TRUE]]
                         /\ UNCHANGED borrowed
                    ELSE /\ req' = [req EXCEPT ![r] =
                                      [new EXCEPT !.pc = "select", !.sub = g.sub,
                                                  !.conn = TRUE]]
                         /\ borrowed' = get_connection
    /\ UNCHANGED <<users, nextId, productos, nextPid, clock, secretKey, session, cdc>>

\* The SELECT of get_user_by_username, its connection back, then the two
\* checks on the user; the user is handed to the operation.
AuthSelect(r) ==
    /\ req[r].kind = "prot" /\ req[r].pc = "select"
    /\ LET user == get_user_by_username(users, req[r].sub)
           e1 == get_current_user_row(user)
           e2 == get_current_active_user(user)
       IN  req' = [req EXCEPT
                     ![r].conn = FALSE,
                     ![r].row = user,
                     ![r].pc = IF e1 \cup e2 # {} THEN "done" ELSE "handler",
                     ![r].ident = IF e1 \cup e2 # {} THEN {} ELSE user,
                     ![r].resp = IF e1 # {} THEN CHOOSE x \in e1 : TRUE
                                 ELSE IF e2 # {} THEN CHOOSE x \in e2 : TRUE
                                 ELSE req[r].resp]
    /\ borrowed' = return_connection
    /\ UNCHANGED <<users, nextId, productos, nextPid, clock, secretKey, session, cdc>>

-----------------------------------------------------------------------------
(* The protected operations: main.get_current_user_info and the product  *)
(* handlers.  A handler's statements run as one transaction; the result  *)
(* is the response and the table as the handler leaves it.               *)

OK(rows) == [HTTPException(200, "", FALSE) EXCEPT !.rows = rows]

\* validar_proveedor / validar_impuesto: 404 when the table exists and has
\* no such id
validar(found) ==
    IF found THEN {} ELSE {HTTPException(404, "Proveedor o impuesto no existe", FALSE)}

crear_producto(P, npid, nombre, prov_ok, imp_ok) ==
    LET e == validar(prov_ok) \cup validar(imp_ok)
    IN  IF e # {} THEN [resp |-> CHOOSE x \in e : TRUE, P |-> P, npid |-> npid]
        ELSE IF \E x \in P : x.nombre = nombre
        THEN [resp |-> HTTPException(409, "Ya existe un producto con ese nombre", FALSE),
              P |-> P, npid |-> npid]
        ELSE LET row == [id |-> npid, nombre |-> nombre]
             IN  [resp |-> OK({row}), P |-> P \cup {row}, npid |-> npid + 1]

obtener_productos(P, npid) == [resp |-> OK(P), P |-> P, npid |-> npid]

obtener_producto(P, npid, producto_id) ==
    LET row == fetchone({x \in P : x.id = producto_id})
    IN  IF row # {} THEN [resp |-> OK(row), P |-> P, npid |-> npid]
        ELSE [resp |-> HTTPException(404, "Producto no encontrado", FALSE),
              P |-> P, npid |-> npid]

actualizar_producto(P, npid, producto_id, nombre, prov_ok, imp_ok) ==
    LET existente == fetchone({x \in P : x.id = producto_id})
        e == validar(prov_ok) \cup validar(imp_ok)
    IN  IF existente = {}
        THEN [resp |-> HTTPException(404, "Producto no encontrado", FALSE),
              P |-> P, npid |-> npid]
        ELSE IF e # {} THEN [resp |-> CHOOSE x \in e : TRUE, P |-> P, npid |-> npid]
        ELSE IF (\A x \in existente : x.nombre # nombre)
                /\ (\E x \in P : x.nombre = nombre /\ x.id # producto_id)
        THEN [resp |-> HTTPException(409, "Ya existe otro producto con ese nombre", FALSE),
              P |-> P, npid |-> npid]
        ELSE LET row == [id |-> producto_id, nombre |-> nombre]
             IN  [resp |-> OK({row}), P |-> (P \ existente) \cup {row}, npid |-> npid]

eliminar_producto(P, npid, producto_id) ==
    LET gone == {x \in P : x.id = producto_id}
    IN  IF gone = {}
        THEN [resp |-> HTTPException(404, "Producto no encontrado", FALSE),
              P |-> P, npid |-> npid]
        ELSE [resp |-> OK({}), P |-> P \ gone, npid |-> npid]

\* GET /me: the public fields of the user the chain handed over
HandlerMe(r) ==
    /\ req[r].kind = "prot" /\ req[r].pc = "handler" /\ req[r].op = "me"
    /\ req' = [req EXCEPT ![r].pc = "done",
                 ![r].resp = [HTTPException(200, "", FALSE) EXCEPT
                                !.user = {UsuarioResponse(u) : u \in req[r].ident}]]
    /\ UNCHANGED <<users, nextId, productos, nextPid, clock, secretKey, borrowed, session, cdc>>

\* A product handler starts: get_connection
HandlerBegin(r) ==
    /\ req[r].kind = "prot" /\ req[r].pc = "handler" /\ req[r].op # "me"
    /\ req' = [req EXCEPT ![r].pc = "exec", ![r].conn = TRUE, ![r].hconn = TRUE]
    /\ borrowed' = get_connection
    /\ UNCHANGED <<users, nextId, productos, nextPid, clock, secretKey, session, cdc>>

\* Its statements, commit or rollback, and the connection back (finally)
HandlerExec(r, prov_ok, imp_ok) ==
    /\ req[r].kind = "prot" /\ req[r].pc = "exec"
    /\ LET o == req[r].op
           out == CASE o = "crear" ->
                         crear_producto(productos, nextPid, req[r].nombre, prov_ok, imp_ok)
                    [] o = "listar" -> obtener_productos(productos, nextPid)
                    [] o = "obtener" -> obtener_producto(productos, nextPid, req[r].pid)
                    [] o = "actualizar" ->
                         actualizar_producto(productos, nextPid, req[r].pid,
                                             req[r].nombre, prov_ok, imp_ok)
                    [] OTHER -> eliminar_producto(productos, nextPid, req[r].pid)
       IN  /\ productos' = out.P
           /\ nextPid' = out.npid
           /\ req' = [req EXCEPT ![r].pc = "done", ![r].conn = FALSE,
                        ![r].hwrote = (out.P # productos),
                        ![r].resp = out.resp]
    /\ borrowed' = return_connection
    /\ UNCHANGED <<users, nextId, clock, secretKey, session, cdc>>

-----------------------------------------------------------------------------
(* The environment: time, and the administration of accounts *)

Tick ==
    /\ \E t \in SysInstants : t > clock /\ clock' = t
    /\ UNCHANGED <<users, nextId, productos, nextPid, secretKey, borrowed, session, req, cdc>>

\* An account is deactivated or reactivated (UPDATE usuarios SET is_active)
SetActive(username, active) ==
    /\ \E u \in users : u.username = username /\ u.is_active # active
    /\ users' = { IF u.username = username THEN [u EXCEPT !.is_active = active] ELSE u
                  : u \in users }
    /\ UNCHANGED <<nextId, productos, nextPid, clock, secretKey, borrowed, session, req, cdc>>

-----------------------------------------------------------------------------
(* Failures of the store: an exception of get_connection or of a          *)
(* statement, and rows whose hashed_password is no hash                   *)

\* Exceptions of cur.execute / conn.commit: the connection is lost, or
\* the statement fails (a missing table)
ExecErrors == {"OperationalError", "ProgrammingError"}

\* Exceptions of get_connection: the server cannot be reached, or all the
\* connections of the pool are out
PoolErrors == {"OperationalError", "PoolError"}

\* The framework's response to an exception no handler catches
ServerError == HTTPException(500, "Internal Server Error", FALSE)

\* except Exception: conn.rollback(), then handle_db_exception; the
\* rollback of a connection the failure closed raises in its turn, and
\* that exception leaves the endpoint
rollback_then_handle(e, closed) ==
    IF closed THEN ServerError ELSE handle_db_exception(e, FALSE)

\* register: get_connection raises; conn is None, nothing to return
RegisterNoConn(r, username, email, password, e) ==
    /\ Free(r)
    /\ req' = [req EXCEPT ![r] =
                 [NoReq EXCEPT !.kind = "register", !.username = username,
                               !.email = email, !.password = password,
                               !.fault = e,
                               !.resp = handle_db_exception(e, FALSE)]]
    /\ UNCHANGED <<users, nextId, productos, nextPid, clock, secretKey,
                   borrowed, session, cdc>>

\* register: its SELECT or its INSERT raises; rollback,
\* handle_db_exception, and the connection goes back (finally)
RegFault(r, e, closed) ==
    /\ req[r].kind = "register" /\ req[r].pc \in {"check", "insert"}
    /\ closed => e = "OperationalError"
    /\ req' = [req EXCEPT ![r].pc = "done", ![r].conn = FALSE,
                 ![r].fault = e,
                 ![r].resp = rollback_then_handle(e, closed)]
    /\ borrowed' = return_connection
    /\ UNCHANGED <<users, nextId, productos, nextPid, clock, secretKey, session, cdc>>

\* login: get_connection raises in get_user_by_username; nothing catches it
LoginNoConn(r, username, password, e) ==
    /\ Free(r)
    /\ req' = [req EXCEPT ![r] =
                 [NoReq EXCEPT !.kind = "login", !.username = username,
                               !.password = password, !.fault = e,
                               !.resp = login_response([user |-> {}, exc |-> e],
                                                       clock, secretKey)]]
    /\ UNCHANGED <<users, nextId, productos, nextPid, clock, secretKey,
                   borrowed, session, cdc>>

\* login: the SELECT of get_user_by_username raises; its connection goes
\* back (finally) and the exception leaves login
LoginFault(r, e) ==
    /\ req[r].kind = "login" /\ req[r].pc = "select"
    /\ req' = [req EXCEPT ![r].pc = "done", ![r].conn = FALSE,
                 ![r].fault = e,
                 ![r].resp = login_response([user |-> {}, exc |-> e],
                                            clock, secretKey)]
    /\ borrowed' = return_connection
    /\ UNCHANGED <<users, nextId, productos, nextPid, clock, secretKey, session, cdc>>

\* A protected request whose token passes: get_connection raises in
\* get_user_by_username, and nothing in get_current_user catches it
ProtectedNoConn(r, oa, h, e) ==
    /\ Free(r)
    /\ oauth2_scheme(h[1]) = {}
    /\ LET g == get_current_user_token(CHOOSE t \in h[2] : TRUE, clock, secretKey)
       IN  /\ g.exc = {}
           /\ req' = [req EXCEPT ![r] =
                        [NoReq EXCEPT !.kind = "prot", !.op = oa[1], !.pid = oa[2],
                                      !.nombre = oa[3], !.scheme = h[1],
                                      !.tok = h[2], !.sub = g.sub,
                                      !.fault = e, !.resp = ServerError]]
    /\ UNCHANGED <<users, nextId, productos, nextPid, clock, secretKey,
                   borrowed, session, cdc>>

\* The SELECT of get_user_by_username raises in get_current_user
AuthFault(r, e) ==
    /\ req[r].kind = "prot" /\ req[r].pc = "select"
    /\ req' = [req EXCEPT ![r].pc = "done", ![r].conn = FALSE,
                 ![r].fault = e, ![r].resp = ServerError]
    /\ borrowed' = return_connection
    /\ UNCHANGED <<users, nextId, productos, nextPid, clock, secretKey, session, cdc>>

\* A product handler: get_connection raises; conn is None
HandlerNoConn(r, e) ==
    /\ req[r].kind = "prot" /\ req[r].pc = "handler" /\ req[r].op # "me"
    /\ req' = [req EXCEPT ![r].pc = "done", ![r].fault = e,
                 ![r].resp = handle_db_exception(e, FALSE)]
    /\ UNCHANGED <<users, nextId, productos, nextPid, clock, secretKey,
                   borrowed, session, cdc>>

\* A product handler: a statement raises; the handlers that write roll
\* back first; handle_db_exception, and the connection goes back (finally)
HandlerFault(r, e, closed) ==
    /\ req[r].kind = "prot" /\ req[r].pc = "exec"
    /\ closed => e = "OperationalError"
    /\ req' = [req EXCEPT ![r].pc = "done", ![r].conn = FALSE,
                 ![r].fault = e,
                 ![r].resp = IF req[r].op \in {"listar", "obtener"}
                             THEN handle_db_exception(e, FALSE)
                             ELSE rollback_then_handle(e, closed)]
    /\ borrowed' = return_connection
    /\ UNCHANGED <<users, nextId, productos, nextPid, clock, secretKey, session, cdc>>

\* A row of usuarios written by other means than /register, whose
\* hashed_password is no hash
Legacy(username, email) ==
    /\ nextId <= MaxId
    /\ ~unique_violation(users, username, email)
    /\ users' = users \cup {[id |-> nextId, username |-> username, email |-> email,
                             hashed_password |-> MalformedHash, is_active |-> TRUE]}
    /\ nextId' = nextId + 1
    /\ UNCHANGED <<productos, nextPid, clock, secretKey, borrowed, session, req, cdc>>

NoCall == [pc |-> "off", data |-> [sub |-> NoSub, exp |-> NoExp, role |-> NoRole],
           delta |-> NoDelta, own |-> FALSE, t0 |-> 0, ikey |-> "", tok |-> {},
           after |-> {}, vclock |-> 0, vkey |-> "", out |-> {}]

Init ==
    /\ users = {}
    /\ nextId = 1
    /\ productos = {}
    /\ nextPid = 1
    /\ clock = 0
    /\ secretKey = DefaultKey
    /\ borrowed = 0
    /\ session = {}
    /\ req = [r \in Reqs |-> NoReq]
    /\ cdc = NoCall

\* The service with one request at a time (worker Main); the clock and the
\* administration of accounts move between any two of its steps.
Main == CHOOSE r \in Reqs : \A q \in Reqs : r <= q

Next ==
    \/ \E i \in RegInputs : Register(Main, i[1], i[2], i[3])
    \/ RegCheck(Main)
    \/ \E s \in Salts, m \in BOOLEAN : RegInsert(Main, s, m)
    \/ \E l \in LoginInputs : Login(Main, l[1], l[2])
    \/ LoginSelect(Main)
    \/ \E oa \in OpArgs, h \in Headers : Protected(Main, oa, h)
    \/ AuthSelect(Main)
    \/ HandlerMe(Main)
    \/ HandlerBegin(Main)
    \/ \E a \in BOOLEAN, b \in BOOLEAN : HandlerExec(Main, a, b)
    \/ Tick
    \/ \E u \in Usernames, a \in BOOLEAN : SetActive(u, a)

Spec == Init /\ [][Next]_vars

\* /register and /login served by NReq workers at once
AccountNext ==
    \/ \E r \in Reqs, i \in RegInputs : Register(r, i[1], i[2], i[3])
    \/ \E r \in Reqs : RegCheck(r)
    \/ \E r \in Reqs, s \in Salts, m \in BOOLEAN : RegInsert(r, s, m)
    \/ \E r \in Reqs, l \in LoginInputs : Login(r, l[1], l[2])
    \/ \E r \in Reqs : LoginSelect(r)
    \/ \E u \in Usernames, a \in BOOLEAN : SetActive(u, a)

AccountSpec == Init /\ [][AccountNext]_vars

\* The service with a store that fails: NReq workers, the account
\* endpoints and the protected ones asked for with the client's token
FaultOps == {<<"me", 0, "">>, <<"crear", 0, "n1">>, <<"listar", 0, "">>}
FaultHeaders == {<<"none", {}>>} \cup { <<"bearer", {t}>> : t \in session }
FaultRegs == {i \in RegInputs : i[1] = "alice"}
FaultLogins == {l \in LoginInputs : l[2] = "secret1"}

FaultNext ==
    \/ \E r \in Reqs, i \in FaultRegs : Register(r, i[1], i[2], i[3])
    \/ \E r \in Reqs, i \in FaultRegs, e \in PoolErrors :
          RegisterNoConn(r, i[1], i[2], i[3], e)
    \/ \E r \in Reqs : RegCheck(r)
    \/ \E r \in Reqs, s \in Salts, m \in BOOLEAN : RegInsert(r, s, m)
    \/ \E r \in Reqs, e \in ExecErrors, c \in BOOLEAN : RegFault(r, e, c)
    \/ \E r \in Reqs, l \in FaultLogins : Login(r, l[1], l[2])
    \/ \E r \in Reqs, l \in FaultLogins, e \in PoolErrors : LoginNoConn(r, l[1], l[2], e)
    \/ \E r \in Reqs : LoginSelect(r)
    \/ \E r \in Reqs, e \in ExecErrors : LoginFault(r, e)
    \/ \E r \in Reqs, oa \in FaultOps, h \in FaultHeaders : Protected(r, oa, h)
    \/ \E r \in Reqs, oa \in FaultOps, h \in FaultHeaders, e \in PoolErrors :
          ProtectedNoConn(r, oa, h, e)
    \/ \E r \in Reqs : AuthSelect(r)
    \/ \E r \in Reqs, e \in ExecErrors : AuthFault(r, e)
    \/ \E r \in Reqs : HandlerMe(r)
    \/ \E r \in Reqs : HandlerBegin(r)
    \/ \E r \in Reqs, e \in PoolErrors : HandlerNoConn(r, e)
    \/ \E r \in Reqs, a \in BOOLEAN, b \in BOOLEAN : HandlerExec(r, a, b)
    \/ \E r \in Reqs, e \in ExecErrors, c \in BOOLEAN : HandlerFault(r, e, c)
    \/ \E i \in RegInputs : Legacy(i[1], i[2])

FaultSpec == Init /\ [][FaultNext]_vars

\* The service with a store that fails, for the accounting of connections:
\* NReq workers, one account, its token, and one exception class (the pool
\* does not tell them apart)
PoolRegs == {i \in RegInputs : i[1] = "alice"}
PoolLogins == {l \in LoginInputs : l = <<"alice", "secret1">>}
PoolHeaders == { <<"bearer", {t}>> : t \in session }
PoolFault == "OperationalError"

PoolNext ==
    \/ \E r \in Reqs, i \in PoolRegs : Register(r, i[1], i[2], i[3])
    \/ \E r \in Reqs, i \in PoolRegs : RegisterNoConn(r, i[1], i[2], i[3], PoolFault)
    \/ \E r \in Reqs : RegCheck(r)
    \/ \E r \in Reqs, s \in Salts : RegInsert(r, s, TRUE)
    \/ \E r \in Reqs, c \in BOOLEAN : RegFault(r, PoolFault, c)
    \/ \E r \in Reqs, l \in PoolLogins : Login(r, l[1], l[2])
    \/ \E r \in Reqs, l \in PoolLogins : LoginNoConn(r, l[1], l[2], PoolFault)
    \/ \E r \in Reqs : LoginSelect(r)
    \/ \E r \in Reqs : LoginFault(r, PoolFault)
    \/ \E r \in Reqs, oa \in FaultOps, h \in PoolHeaders : Protected(r, oa, h)
    \/ \E r \in Reqs, oa \in FaultOps, h \in PoolHeaders :
          ProtectedNoConn(r, oa, h, PoolFault)
    \/ \E r \in Reqs : AuthSelect(r)
    \/ \E r \in Reqs : AuthFault(r, PoolFault)
    \/ \E r \in Reqs : HandlerMe(r)
    \/ \E r \in Reqs : HandlerBegin(r)
    \/ \E r \in Reqs : HandlerNoConn(r, PoolFault)
    \/ \E r \in Reqs, a \in BOOLEAN : HandlerExec(r, a, TRUE)
    \/ \E r \in Reqs, c \in BOOLEAN : HandlerFault(r, PoolFault, c)

PoolSpec == Init /\ [][PoolNext]_vars

-----------------------------------------------------------------------------
(* The token codec called directly: create_access_token and verify_token *)
(* on claim sets, lifetimes, tokens, keys and clock readings of any kind *)

Presented ==
    [sub : {"alice", NoSub}, exp : {NoExp, 0, 1, 2}, role : {NoRole},
     key : Keys, alg : Algs]

\* create_access_token(data, expires_delta) under the current key
CIssue(data, delta) ==
    /\ cdc.pc = "ready"
    /\ LET c == create_access_token(data, delta, clock, secretKey)
       IN  cdc' = [cdc EXCEPT !.pc = "issued", !.data = data, !.delta = delta,
                              !.own = TRUE, !.t0 = clock, !.ikey = secretKey,
                              !.tok = {c.token}, !.after = {c.data}]
    /\ UNCHANGED <<users, nextId, productos, nextPid, clock, secretKey,
                   borrowed, session, req>>

\* A token made elsewhere is handed in
CPresent(t) ==
    /\ cdc.pc = "ready"
    /\ cdc' = [cdc EXCEPT !.pc = "issued", !.tok = {t}]
    /\ UNCHANGED <<users, nextId, productos, nextPid, clock, secretKey,
                   borrowed, session, req>>

CTick ==
    /\ clock < CodecMaxClock
    /\ clock' = clock + 1
    /\ UNCHANGED <<users, nextId, productos, nextPid, secretKey, borrowed,
                   session, req, cdc>>

\* The process is started again with another JWT_SECRET_KEY
CRotate(k) ==
    /\ k # secretKey
    /\ secretKey' = k
    /\ UNCHANGED <<users, nextId, productos, nextPid, clock, borrowed,
                   session, req, cdc>>

\* verify_token(token) at the current clock under the current key
CVerify ==
    /\ cdc.pc = "issued"
    /\ cdc' = [cdc EXCEPT !.pc = "verified", !.vclock = clock, !.vkey = secretKey,
                          !.out = {verify_token(CHOOSE t \in cdc.tok : TRUE,
                                                clock, secretKey)}]
    /\ UNCHANGED <<users, nextId, productos, nextPid, clock, secretKey,
                   borrowed, session, req>>

CodecInit ==
    /\ users = {}
    /\ nextId = 1
    /\ productos = {}
    /\ nextPid = 1
    /\ clock = 0
    /\ secretKey = DefaultKey
    /\ borrowed = 0
    /\ session = {}
    /\ req = [r \in Reqs |-> NoReq]
    /\ cdc = [NoCall EXCEPT !.pc = "ready"]

CodecNext ==
    \/ \E d \in ClaimSets, x \in Deltas : CIssue(d, x)
    \/ \E t \in Presented : CPresent(t)
    \/ CTick
    \/ \E k \in Keys : CRotate(k)
    \/ CVerify

CodecSpec == CodecInit /\ [][CodecNext]_vars

-----------------------------------------------------------------------------
(* Properties of the token codec (CodecSpec) *)

Verified == cdc.pc = "verified"
Tok == CHOOSE t \in cdc.tok : TRUE
Out == CHOOSE o \in cdc.out : TRUE

\* The signature of t verifies under key with the expected algorithm
SigOK(t, key) == t.key = key /\ t.alg = ALGORITHM

\* The expiration instant of t, in ticks
ExpInstant(t) == t.exp * TicksPerSec

\* The lifetime asked for: the default when none is given
Ttl(delta) == IF delta = NoDelta THEN minutes(ACCESS_TOKEN_EXPIRE_MINUTES) ELSE delta

InvalidTokenOutcome == {HTTPException(401, "Token invalido o expirado", TRUE)}

\* C2: verify_token accepts a token if and only if its signature verifies
\* under the server's key with the expected algorithm and the clock is
\* strictly before the token's expiration instant (a token without exp
\* never expires).
C2_AcceptIffSignedAndBeforeExp ==
    Verified =>
        (Out.ok <=> /\ SigOK(Tok, cdc.vkey)
                    /\ Tok.exp # NoExp => cdc.vclock < ExpInstant(Tok))

\* C3: a correctly signed token validated at a clock reading at or after
\* its expiration instant fails, with an outcome other than the one of an
\* invalid token.
C3_ExpiredIsDistinctError ==
    (Verified /\ SigOK(Tok, cdc.vkey) /\ Tok.exp # NoExp
              /\ cdc.vclock >= ExpInstant(Tok))
    => (~Out.ok /\ Out.exc # verify_token(Garbage, cdc.vclock, cdc.vkey).exc)

\* C4: a token signed with a key other than the server's current key
\* fails verify_token with the invalid-token 401, whatever its claims; so
\* does every token issued before the key was changed.
C4_OtherKeyRejected ==
    (Verified /\ Tok.key # cdc.vkey)
    => (~Out.ok /\ Out.payload = {} /\ Out.exc = InvalidTokenOutcome)

\* C4's case: a token issued by create_access_token, unexpired, verified
\* after the key was changed
C4_Witness ==
    /\ Verified /\ cdc.own /\ cdc.ikey # cdc.vkey
    /\ Tok.exp > timegm(cdc.vclock)
    /\ ~Out.ok

\* C8 as stated: before issuance + ttl the round trip returns d extended
\* with exp = issuance time + ttl, and d is left as it was.
C8_RoundTripExact ==
    (Verified /\ cdc.own /\ cdc.ikey = cdc.vkey
              /\ cdc.vclock < cdc.t0 + Ttl(cdc.delta))
    => /\ Out.ok
       /\ \A c \in Out.payload :
             /\ c.sub = cdc.data.sub /\ c.role = cdc.data.role
             /\ c.exp * TicksPerSec = cdc.t0 + Ttl(cdc.delta)
       /\ cdc.after = {cdc.data}

\* C8 amended: before issuance + ttl the round trip returns d with its exp
\* claim set to issuance time + ttl truncated to whole seconds, and d is
\* left as it was.
C8_RoundTrip ==
    (Verified /\ cdc.own /\ cdc.ikey = cdc.vkey
              /\ cdc.vclock < cdc.t0 + Ttl(cdc.delta))
    => /\ Out.ok
       /\ Out.payload = {[cdc.data EXCEPT !.exp = timegm(cdc.t0 + Ttl(cdc.delta))]}
       /\ cdc.after = {cdc.data}

\* C8's case: a token issued at a clock reading with a fraction of a
\* second, verified before it expires
C8_Witness ==
    /\ Verified /\ cdc.own /\ cdc.ikey = cdc.vkey
    /\ cdc.vclock < cdc.t0 + Ttl(cdc.delta)
    /\ (cdc.t0 + Ttl(cdc.delta)) % TicksPerSec # 0
    /\ cdc.data.exp # NoExp
    /\ Out.ok

-----------------------------------------------------------------------------
(* Properties of /login and /register (AccountSpec) *)

\* Worker r takes a new request in this step
Arrives(r) == req[r].pc = "done" /\ req'[r] # req[r]

\* Worker r runs authenticate_user in this step
Authenticates(r) ==
    req[r].kind = "login" /\ req[r].pc = "select" /\ req'[r].pc = "done"

\* C1: authenticate_user returns the stored user exactly when a user of
\* that username exists, the password verifies against its hash and it is
\* active, and returns None otherwise; for an unknown username nothing is
\* raised: login answers with its own 401.
C1_Authenticate ==
    [][\A r \in Reqs : Authenticates(r) =>
          /\ req'[r].ident =
                {u \in users : /\ u.username = req[r].username
                               /\ verify_password(req[r].password, u.hashed_password)
                               /\ u.is_active}
          /\ (\A u \in users : u.username # req[r].username)
                => req'[r].resp.status = 401]_vars

\* C1's case: a login that authenticate_user accepted, and one it refused
\* for a stored user
C1_Witness ==
    \E r1, r2 \in Reqs :
        /\ req[r1].kind = "login" /\ req[r1].pc = "done" /\ req[r1].ident # {}
        /\ req[r2].kind = "login" /\ req[r2].pc = "done" /\ req[r2].ident = {}
        /\ \E u \in users : u.username = req[r2].username

Rejected(r) ==
    req[r].kind = "login" /\ req[r].pc = "done" /\ req[r].resp.token = {}

\* C7: any two rejected logins get the same response (status, body,
\* headers), whichever check refused them.
C7_UniformRejection ==
    \A r1, r2 \in Reqs :
        (Rejected(r1) /\ Rejected(r2)) => req[r1].resp = req[r2].resp

\* C7's case: a login refused for a wrong password of a stored user beside
\* one refused for a username that is not stored
C7_Witness ==
    \E r1, r2 \in Reqs :
        /\ Rejected(r1) /\ Rejected(r2)
        /\ \E u \in users : /\ u.username = req[r1].username
                            /\ ~verify_password(req[r1].password, u.hashed_password)
        /\ \A u \in users : u.username # req[r2].username

\* Worker r ends a /register in this step
Registers(r) == req[r].kind = "register" /\ req'[r].pc = "done" /\ req[r].pc # "done"

Duplicate(r) ==
    \E u \in users : u.username = req[r].username \/ u.email = req[r].email

\* C10: no two stored users share a username or an email, and a register
\* whose username or email is stored already, found by its check or only
\* by its insert, ends with a 4xx response and adds no user.
C10_UniqueUsers ==
    /\ [](\A u, v \in users :
             (u.username = v.username \/ u.email = v.email \/ u.id = v.id) => u = v)
    /\ [][\A r \in Reqs : (Registers(r) /\ Duplicate(r)) =>
             /\ users' = users
             /\ req'[r].resp.status \in {400, 409}
             /\ req'[r].resp.user = {}]_vars

\* C10's case: a register that passed its check and lost at its insert
C10_Witness ==
    \E r \in Reqs :
        /\ req[r].kind = "register" /\ req[r].pc = "done"
        /\ req[r].resp.status = 409
        /\ Cardinality(users) = 1

-----------------------------------------------------------------------------
(* Properties of the protected operations (Spec) *)

\* The chain of worker r fails on the token in the step the request arrives
AuthFailsAtArrival(r) ==
    /\ Arrives(r) /\ req'[r].kind = "prot"
    /\ \/ req'[r].scheme # "bearer"
       \/ \E t \in req'[r].tok : \/ ~verify_token(t, clock, secretKey).ok
                                 \/ t.sub = NoSub

\* The chain of worker r fails on the user in the step of its query
AuthFailsAtSelect(r) ==
    /\ req[r].kind = "prot" /\ req[r].pc = "select" /\ req'[r].pc # "select"
    /\ ~ \E u \in users : u.username = req[r].sub /\ u.is_active

\* The request of worker r ends here with an auth error and no trace of a handler
EndsBeforeHandler(r) ==
    /\ req'[r].pc = "done"
    /\ req'[r].resp.status \in {400, 401, 403}
    /\ req'[r].resp.rows = {} /\ req'[r].resp.user = {}
    /\ ~req'[r].hconn /\ ~req'[r].hwrote /\ ~req'[r].conn
    /\ UNCHANGED <<users, nextId, productos, nextPid>>

\* A handler is entered only from a chain that passed, and the product
\* table is touched only by a handler
HandlerOnlyAfterAuth(r) ==
    /\ (req'[r].pc = "handler" /\ req[r].pc # "handler")
          => (req[r].pc = "select" /\ ~AuthFailsAtSelect(r))
    /\ (req'[r].pc = "exec" /\ req[r].pc # "exec") => req[r].pc = "handler"
    /\ (req'[r].hconn /\ ~req[r].hconn) => req[r].pc = "handler"
    /\ (req'[r].hwrote /\ ~req[r].hwrote) => req[r].pc = "exec"

\* C5: a protected request with the token /login returned, for a user
\* deactivated since, ends with an unauthorized or forbidden response and
\* runs no handler.
C5_InactiveIsUnauthorized ==
    \A r \in Reqs :
        (/\ req[r].kind = "prot" /\ req[r].pc = "done"
         /\ req[r].tok # {} /\ req[r].tok \subseteq session
         /\ \E u \in req[r].row : ~u.is_active)
        => (req[r].resp.status \in {401, 403} /\ ~req[r].hconn /\ ~req[r].hwrote)

\* C6: when a step of the chain fails, the request ends in that step with
\* the auth error: no connection for a handler, no product row read or
\* written, the tables as they were; and no handler starts but after a
\* chain that passed.
C6_AuthShortCircuits ==
    [][/\ \A r \in Reqs :
             /\ (AuthFailsAtArrival(r) \/ AuthFailsAtSelect(r)) => EndsBeforeHandler(r)
             /\ HandlerOnlyAfterAuth(r)
       /\ (productos' # productos \/ nextPid' # nextPid)
             => \E r \in Reqs : req[r].kind = "prot" /\ req[r].pc = "exec"]_vars

\* C6's case: a DELETE refused by the chain, after its token passed, while
\* the product is stored
C6_Witness ==
    \E r \in Reqs :
        /\ req[r].kind = "prot" /\ req[r].op = "eliminar" /\ req[r].pc = "done"
        /\ req[r].resp.status = 401 /\ req[r].sub # NoSub
        /\ productos # {}

\* C9: the chain hands a user to the handler if and only if, as the
\* request is served, the token passes verify_token and carries a subject
\* and a user of that name is stored and active; the user handed over is
\* the row stored at that moment.
C9_IdentityIffLive ==
    [][\A r \in Reqs :
          /\ (Arrives(r) /\ req'[r].kind = "prot") =>
                /\ req'[r].pc = "select" <=>
                      (/\ req'[r].scheme = "bearer"
                       /\ \A t \in req'[r].tok :
                             /\ verify_token(t, clock, secretKey).ok
                             /\ t.sub # NoSub /\ req'[r].sub = t.sub)
                /\ req'[r].pc \in {"select", "done"}
                /\ req'[r].ident = {}
          /\ (req[r].kind = "prot" /\ req[r].pc = "select" /\ req'[r].pc # "select") =>
                /\ req'[r].ident =
                      {u \in users : u.username = req[r].sub /\ u.is_active}
                /\ req'[r].pc = "handler" <=> req'[r].ident # {}
                /\ req'[r].pc \in {"handler", "done"}
          /\ (req[r].kind = "prot" /\ req[r].pc = "handler" /\ req[r].op = "me"
              /\ req'[r].pc = "done") =>
                req'[r].resp.user = {UsuarioResponse(u) : u \in req[r].ident}]_vars

\* C9's case: a user handed to a handler while another user is stored too
C9_Witness ==
    \E r \in Reqs :
        /\ req[r].kind = "prot" /\ req[r].pc = "handler"
        /\ req[r].ident # {} /\ Cardinality(users) = 2
        /\ req[r].tok \subseteq session

-----------------------------------------------------------------------------
(* Properties of the service with a failing store (FaultSpec) *)

\* C11: verify_password raises nothing for a stored hash that is no hash,
\* and authenticate_user returns None for a user who has one: a login for
\* such a user meets no exception of theirs.
C11_MalformedHashRejected ==
    \A r \in Reqs :
        (req[r].kind = "login" /\ req[r].pc = "done")
        => \A u \in users :
              (u.username = req[r].username /\ ~identify(u.hashed_password))
              => /\ verify_password_exc(req[r].password, u.hashed_password) = ""
                 /\ authenticate_user(users, req[r].username, req[r].password)
                       = [user |-> {}, exc |-> ""]

\* The request of worker r reached the credential store
ReachesUsuarios(r) ==
    \/ req[r].kind \in {"register", "login"}
    \/ req[r].kind = "prot" /\ ~req[r].hconn /\ req[r].row = {}

\* C12: a request that met a failure of the credential store (in register,
\* in the lookup of login, in the lookup of get_current_user) ends with 503
\* when the failure is of connectivity, with a 4xx when it is of integrity,
\* and with a 500 that quotes no exception text for any other.
C12_StoreFailuresSurfaced ==
    \A r \in Reqs :
        (req[r].pc = "done" /\ req[r].fault # "" /\ ReachesUsuarios(r))
        => /\ req[r].fault = "OperationalError" => req[r].resp.status = 503
           /\ req[r].fault = "IntegrityError" => req[r].resp.status \in 400..499
           /\ req[r].fault \notin {"OperationalError", "IntegrityError"}
                 => (req[r].resp.status = 500 /\ req[r].resp.text = {})

-----------------------------------------------------------------------------
(* The session of a user, and the order of the chain (Spec) *)

\* The request worker r takes carries the token /login returned to name
SessionRequest(r, name) ==
    /\ Arrives(r) /\ req'[r].kind = "prot" /\ req'[r].op = "me"
    /\ req'[r].tok # {} /\ req'[r].tok \subseteq session
    /\ \A t \in req'[r].tok : t.sub = name

\* C13: with alice registered with secret1 (and active), login(alice,
\* secret1) returns a token whose subject is alice; a /me with that token
\* before its expiration instant returns alice's public fields with
\* is_active true; a /me with it once the clock has passed the expiration
\* instant is refused with the 401 of an expired token.
C13_SessionLifecycle ==
    [][\A r \in Reqs :
          /\ (/\ Authenticates(r)
              /\ req[r].username = "alice" /\ req[r].password = "secret1"
              /\ \E u \in users : /\ u.username = "alice" /\ u.is_active
                                  /\ verify_password("secret1", u.hashed_password))
             => /\ req'[r].resp.status = 200
                /\ req'[r].resp.token # {}
                /\ \A t \in req'[r].resp.token : t.sub = "alice"
          /\ SessionRequest(r, "alice")
             => \A t \in req'[r].tok :
                   /\ clock < ExpInstant(t) => req'[r].pc = "select"
                   /\ clock > ExpInstant(t)
                         => /\ req'[r].pc = "done"
                            /\ {req'[r].resp} = InvalidTokenOutcome
          /\ (/\ req[r].kind = "prot" /\ req[r].op = "me" /\ req[r].pc = "select"
              /\ req'[r].pc # "select"
              /\ \E u \in users : u.username = req[r].sub /\ u.is_active)
             => req'[r].pc = "handler"
          /\ (/\ req[r].kind = "prot" /\ req[r].op = "me" /\ req[r].pc = "handler"
              /\ req'[r].pc = "done")
             => /\ req'[r].resp.status = 200
                /\ req'[r].resp.user # {}
                /\ \A x \in req'[r].resp.user :
                      x.username = req[r].sub /\ x.is_active]_vars

\* The request worker r takes ends at once with response e, and the
\* credential store is not queried for it
EndsUnqueried(r, e) ==
    /\ req'[r].pc = "done" /\ req'[r].resp = e
    /\ ~req'[r].conn /\ req'[r].row = {}
    /\ borrowed' = borrowed /\ users' = users

\* C14: the chain reports the error of its first failing step, in the
\* order credentials, token validation, subject, user lookup, active flag:
\* no or non-bearer credentials give the credentials error, a token that
\* fails validation the invalid-token 401 (with or without a subject), a
\* valid token without subject the no-subject 401, all three without a
\* query of the store; a valid token whose subject is not stored gives the
\* user-not-found 401, before the active flag is looked at.
C14_FirstFailingStep ==
    [][\A r \in Reqs :
          /\ (Arrives(r) /\ req'[r].kind = "prot") =>
                /\ req'[r].scheme = "none"
                      => EndsUnqueried(r, HTTPException(403, "Not authenticated", FALSE))
                /\ req'[r].scheme \notin {"none", "bearer"}
                      => EndsUnqueried(r, HTTPException(403,
                                          "Invalid authentication credentials", FALSE))
                /\ req'[r].scheme = "bearer" =>
                      \A t \in req'[r].tok :
                         /\ ~verify_token(t, clock, secretKey).ok
                               => EndsUnqueried(r, HTTPException(401,
                                                   "Token invalido o expirado", TRUE))
                         /\ (verify_token(t, clock, secretKey).ok /\ t.sub = NoSub)
                               => EndsUnqueried(r, HTTPException(401,
                                                   "Token invalido: no contiene 'sub'", FALSE))
                         /\ (verify_token(t, clock, secretKey).ok /\ t.sub # NoSub)
                               => /\ req'[r].pc = "select" /\ req'[r].conn
                                  /\ req'[r].sub = t.sub
                                  /\ borrowed' = borrowed + 1
          /\ (req[r].kind = "prot" /\ req[r].pc = "select" /\ req'[r].pc # "select") =>
                /\ ~req'[r].conn /\ borrowed' = borrowed - 1
                /\ (\A u \in users : u.username # req[r].sub)
                      => /\ req'[r].pc = "done"
                         /\ req'[r].resp = HTTPException(401, "Usuario no encontrado", FALSE)
                /\ (\E u \in users : u.username = req[r].sub /\ ~u.is_active)
                      => /\ req'[r].pc = "done"
                         /\ req'[r].resp = HTTPException(400, "Usuario inactivo", FALSE)]_vars

\* C14's case: a request whose token is signed and unexpired and has no
\* subject, refused while users are stored
C14_Witness ==
    \E r \in Reqs :
        /\ req[r].kind = "prot" /\ req[r].pc = "done" /\ req[r].scheme = "bearer"
        /\ \A t \in req[r].tok : verify_token(t, clock, secretKey).ok /\ t.sub = NoSub
        /\ req[r].resp.detail = "Token invalido: no contiene 'sub'"
        /\ users # {}

-----------------------------------------------------------------------------
(* The connection pool (PoolSpec) *)

InFlight == {r \in Reqs : req[r].pc # "done"}

\* C15: the connections out of the pool are those held by the requests in
\* flight, one at most each: a request that ended, by its response, by an
\* HTTPException or by a database exception, holds none, so that none is
\* out when all requests have ended, and never more than there are
\* requests in flight.
C15_PoolBalance ==
    /\ borrowed = Cardinality({r \in Reqs : req[r].conn})
    /\ \A r \in Reqs : req[r].conn => r \in InFlight
    /\ borrowed <= Cardinality(InFlight)
    /\ InFlight = {} => borrowed = 0

\* C15's case: a product handler ended by a database exception after it
\* took its connection, while another request holds one
C15_Witness ==
    \E r1, r2 \in Reqs :
        /\ req[r1].kind = "prot" /\ req[r1].pc = "done"
        /\ req[r1].hconn /\ req[r1].fault # ""
        /\ req[r2].conn
        /\ borrowed = 1

=============================================================================
